---- MODULE Spec2Model ----
(***************************************************************************)
(* cloudreposlackhook: Cloud Source Repositories ref-update events,        *)
(* received from Pub/Sub by pull subscription or HTTP push, are turned     *)
(* into Slack attachments and posted to a webhook (src/main.go).           *)
(*                                                                         *)
(* Go strings are TLA+ strings; Len, \o and SubSeq act on them as the Go   *)
(* operations len, + and s[i:j] do.                                        *)
(***************************************************************************)
EXTENDS Integers, Sequences, FiniteSets, TLC

VARIABLES
    mode,       \* config "mode": "push" or "pull"                 (main.go:25)
    slackURL,   \* config "slack_url"                              (main.go:26)
    pc,         \* "idle" | "processData" | "returned": where the handler is
    msg,        \* pull: the *pubsub.Message handed to the callback
    req,        \* push: the *http.Request handed to the handler
    d,          \* the decoded `data` value (var d data)
    remaining,  \* keys of d.RefUpdateEvent.RefUpdates the range loop has not visited
    log,        \* one record per processUpdateEvent call, in call order
    err,        \* what processData returned: "none" (not called/running), "nil", "err"
    calls,      \* pull: the msg.Ack()/msg.Nack() calls made, in order
    status,     \* push: the status written by w.WriteHeader, 0 before any
    rejected    \* push: the check at which the handler returned early, "" if none

vars == <<mode, slackURL, pc, msg, req, d, remaining, log, err, calls, status, rejected>>

\* ------------------------------------------------------------------ bounds

\* The largest number of entries of the refUpdates map of one envelope.
MaxRefUpdates == 2

\* ------------------------------------------------------- program constants

StatusOK == 200
StatusNoContent == 204

\* ------------------------------------------------------------- input sets

Keys == 1..MaxRefUpdates

Modes == {"push", "pull"}

\* slack_url: unset, a webhook URL, and one that http.NewRequest cannot parse.
GoodURL == "https://hooks.slack.com/services/T/B/x"
BadURL == ":bad"
SlackURLs == {"", GoodURL, BadURL}

Names ==
    {"", "projects/p1", "projects/p1/repos", "projects/p1/repos/r1",
     "projects/p1/repos/r1/extra", "///"}

KnownUpdateTypes == {"CREATE", "UPDATE_FAST_FORWARD", "UPDATE_NON_FAST_FORWARD", "DELETE"}
UpdateTypes == KnownUpdateTypes \cup {"UNKNOWN", ""}

Emails == {"a@b.com"}
RefNames == {"refs/heads/main"}
NewIDs == {"abc123"}

\* type updateEvent (OldID is never read)
UpdateEvents == [RefName : RefNames, UpdateType : UpdateTypes, NewID : NewIDs]

RefUpdateMaps == UNION {[S -> UpdateEvents] : S \in SUBSET Keys}

\* type data (URL and EventTime are never read)
Envelopes ==
    {[Name |-> n, RefUpdateEvent |-> [Email |-> e, RefUpdates |-> m]] :
        n \in Names, e \in Emails, m \in RefUpdateMaps}

\* The zero value of `data`: what `var d data` holds before a decode.
ZeroData == [Name |-> "", RefUpdateEvent |-> [Email |-> "", RefUpdates |-> <<>>]]

\* The bytes of a payload: JSON of an envelope, bytes that are not JSON of the
\* expected shape, or no bytes at all (nil).
Payloads ==
    {[json |-> "ok", d |-> e] : e \in Envelopes}
        \cup {[json |-> "malformed", d |-> ZeroData], [json |-> "nil", d |-> ZeroData]}

\* What the webhook call meets: the encoder failing, client.Do failing (network
\* error, timeout), or a response with a status.
Statuses == {StatusOK, StatusNoContent, 500}
Outcomes ==
    {[kind |-> "encerr", status |-> 0], [kind |-> "neterr", status |-> 0]}
        \cup {[kind |-> "resp", status |-> s] : s \in Statuses}

\* ------------------------------------------------------------ pure helpers

\* json.Unmarshal(bytes, &d): the error and what d holds afterwards.
Unmarshal(p) ==
    IF p.json = "ok" THEN [err |-> FALSE, d |-> p.d] ELSE [err |-> TRUE, d |-> ZeroData]

\* strings.Index(s, sep), 1-based; 0 when sep does not occur in s.
Index(s, sep) ==
    LET hits == {i \in 1..(Len(s) - Len(sep) + 1) : SubSeq(s, i, i + Len(sep) - 1) = sep}
    IN  IF hits = {} THEN 0 ELSE CHOOSE i \in hits : \A j \in hits : i <= j

\* A variant of SplitN that splits at every separator, as strings.Split does.
RECURSIVE SplitAll(_, _, _)
SplitAll(s, sep, n) ==
    LET m == Index(s, sep)
    IN  IF m = 0
        THEN <<s>>
        ELSE <<SubSeq(s, 1, m - 1)>> \o SplitAll(SubSeq(s, m + Len(sep), Len(s)), sep, n)

\* strings.SplitN(s, sep, n) for n > 0 and a non-empty sep: at most n substrings,
\* the last one the unsplit remainder.
RECURSIVE SplitN(_, _, _)
SplitN(s, sep, n) ==
    LET m == Index(s, sep)
    IN  IF n <= 1 \/ m = 0
        THEN <<s>>
        ELSE <<SubSeq(s, 1, m - 1)>> \o SplitN(SubSeq(s, m + Len(sep), Len(s)), sep, n - 1)

\* A variant of updateTypeColor with the colors of the last two entries exchanged.
updateTypeColorSwapped(t) ==
    CASE t = "CREATE" -> "#2e77ff"
      [] t = "UPDATE_FAST_FORWARD" -> "#60ff55"
      [] t = "UPDATE_NON_FAST_FORWARD" -> "#ff6d2e"
      [] t = "DELETE" -> "#ff2e2e"
      [] OTHER -> ""

\* var updateTypeColor: a missing key reads as "".
updateTypeColor(t) ==
    CASE t = "CREATE" -> "#2e77ff"
      [] t = "UPDATE_FAST_FORWARD" -> "#60ff55"
      [] t = "UPDATE_NON_FAST_FORWARD" -> "#ff2e2e"
      [] t = "DELETE" -> "#ff6d2e"
      [] OTHER -> ""

\* strings.ToLower on the ASCII letters.
UpperLetters == "ABCDEFGHIJKLMNOPQRSTUVWXYZ"
LowerLetters == "abcdefghijklmnopqrstuvwxyz"
RECURSIVE ToLower(_)
ToLower(s) ==
    IF s = "" THEN ""
    ELSE LET c == SubSeq(s, 1, 1)
             i == Index(UpperLetters, c)
         IN  (IF i = 0 THEN c ELSE SubSeq(LowerLetters, i, i)) \o ToLower(SubSeq(s, 2, Len(s)))

\* strings.TrimSpace for the space character.
RECURSIVE TrimSpace(_)
TrimSpace(s) ==
    IF s = "" THEN ""
    ELSE IF SubSeq(s, 1, 1) = " " THEN TrimSpace(SubSeq(s, 2, Len(s)))
    ELSE IF SubSeq(s, Len(s), Len(s)) = " " THEN TrimSpace(SubSeq(s, 1, Len(s) - 1))
    ELSE s

\* mime.ParseMediaType(v), its first result: the text before the first ";",
\* lower-cased and trimmed; "" when there is no media type.
ParseMediaType(v) ==
    LET i == Index(v, ";")
        base == IF i = 0 THEN v ELSE SubSeq(v, 1, i - 1)
    IN  TrimSpace(ToLower(base))

\* http.NewRequest fails on a URL it cannot parse.
NewRequestFails(url) == url = BadURL

\* A variant of sendSlackMessage without the `slackURL == ""` return.
sendSlackMessageNoURLCheck(url, message, o) ==
    IF o.kind = "encerr" THEN [err |-> TRUE, posts |-> <<>>]
    ELSE IF NewRequestFails(url) THEN [err |-> TRUE, posts |-> <<>>]
    ELSE IF o.kind = "neterr"
         THEN [err |-> TRUE, posts |-> <<[url |-> url, body |-> message, result |-> o]>>]
    ELSE [err |-> o.status # StatusOK,
          posts |-> <<[url |-> url, body |-> message, result |-> o]>>]

\* A variant of sendSlackMessage that takes every 2xx status for success.
sendSlackMessageAny2xx(url, message, o) ==
    IF url = "" THEN [err |-> FALSE, posts |-> <<>>]
    ELSE IF o.kind = "encerr" THEN [err |-> TRUE, posts |-> <<>>]
    ELSE IF NewRequestFails(url) THEN [err |-> TRUE, posts |-> <<>>]
    ELSE IF o.kind = "neterr"
         THEN [err |-> TRUE, posts |-> <<[url |-> url, body |-> message, result |-> o]>>]
    ELSE [err |-> ~(o.status >= 200 /\ o.status < 300),
          posts |-> <<[url |-> url, body |-> message, result |-> o]>>]

\* sendSlackMessage(message) meeting outcome o: the error it returns and the
\* HTTP POSTs it issued (client.Do calls), each with what came back.
sendSlackMessage(url, message, o) ==
    IF url = "" THEN [err |-> FALSE, posts |-> <<>>]
    ELSE IF o.kind = "encerr" THEN [err |-> TRUE, posts |-> <<>>]
    ELSE IF NewRequestFails(url) THEN [err |-> TRUE, posts |-> <<>>]
    ELSE IF o.kind = "neterr"
         THEN [err |-> TRUE, posts |-> <<[url |-> url, body |-> message, result |-> o]>>]
    ELSE [err |-> o.status # StatusOK,
          posts |-> <<[url |-> url, body |-> message, result |-> o]>>]

\* A variant of CommitURL in the URL format of the comment under it in the source.
CommitURLOldFormat(projectID, repoName, newID) ==
    "https://source.developers.google.com/p/" \o projectID \o "/r/" \o repoName \o "/" \o newID

\* fmt.Sprintf("https://source.cloud.google.com/%s/%s/+/%s", ...): %s copies the
\* string as it is.
CommitURL(projectID, repoName, newID) ==
    "https://source.cloud.google.com/" \o projectID \o "/" \o repoName \o "/+/" \o newID

\* The slackMsg literal handed to sendSlackMessage. The fields the literal leaves
\* at their zero value are left out, and so is AuthorIcon (the gravatar URL of the
\* email's MD5 digest).
SlackMessage(dd, ev, color, commitURL) ==
    [Attachments |-> <<
        [Fallback |-> dd.Name \o ":" \o ev.RefName,
         Color |-> color,
         Title |-> "Cloud Repo",
         TitleLink |-> commitURL,
         AuthorName |-> dd.RefUpdateEvent.Email,
         Fields |-> <<
            [Title |-> "Repository", Value |-> dd.Name],
            [Title |-> "Branch", Value |-> ev.RefName],
            [Title |-> "Email", Value |-> dd.RefUpdateEvent.Email],
            [Title |-> "Update Type", Value |-> ev.UpdateType],
            [Title |-> "Commit SHA", Value |-> ev.NewID]>>]>>]

\* processUpdateEvent(d, ev) with the webhook call meeting outcome o: the error
\* returned, the messages handed to sendSlackMessage and the POSTs issued.
processUpdateEvent(url, dd, ev, o) ==
    LET color == updateTypeColor(ev.UpdateType)
        xs == SplitN(dd.Name, "/", 4)
        projectID == xs[2]
        repoName == xs[4]
        message == SlackMessage(dd, ev, color, CommitURL(projectID, repoName, ev.NewID))
        r == sendSlackMessage(url, message, o)
    IN  IF color = "" THEN [err |-> FALSE, sent |-> <<>>, posts |-> <<>>]
        ELSE IF Len(xs) # 4 THEN [err |-> FALSE, sent |-> <<>>, posts |-> <<>>]
        ELSE [err |-> r.err, sent |-> <<message>>, posts |-> r.posts]

\* A variant of processDataIter that goes on with the loop after an error.
processDataIterNoAbort(url, dd, k, o) ==
    LET r == processUpdateEvent(url, dd, dd.RefUpdateEvent.RefUpdates[k], o)
    IN  [rec |-> [key |-> k, err |-> r.err, sent |-> r.sent, posts |-> r.posts],
         return |-> FALSE]

\* One iteration of processData's range loop, on key k: the log record of the
\* processUpdateEvent call and whether the loop returns its error at once.
processDataIter(url, dd, k, o) ==
    LET r == processUpdateEvent(url, dd, dd.RefUpdateEvent.RefUpdates[k], o)
    IN  [rec |-> [key |-> k, err |-> r.err, sent |-> r.sent, posts |-> r.posts],
         return |-> r.err]

\* A variant of PullCalls without the msg.Nack() of a failed processData.
PullCallsAckOnly(decodeErr, processErr) == <<"Ack">>

\* The pull callback's calls on msg, in order: `defer msg.Ack()` runs as the
\* callback returns, after the msg.Nack() of a failed processData.
PullCalls(decodeErr, processErr) ==
    IF decodeErr THEN <<"Ack">>
    ELSE IF processErr THEN <<"Nack", "Ack">>
    ELSE <<"Ack">>

\* A variant of PushCheck without the `msg.Subscription == ""` return.
PushCheckNoSubscription(r) ==
    IF r.Method # "POST" THEN "method"
    ELSE IF ParseMediaType(r.ContentType) # "application/json" THEN "content-type"
    ELSE IF r.Body.json # "ok" THEN "wrapper"
    ELSE IF Unmarshal(r.Body.Data).err THEN "body"
    ELSE "ok"

\* The push handler's checks before processData, in the code's order; the result
\* names the first check that fails, or "ok".
PushCheck(r) ==
    IF r.Method # "POST" THEN "method"
    ELSE IF ParseMediaType(r.ContentType) # "application/json" THEN "content-type"
    ELSE IF r.Body.json # "ok" THEN "wrapper"
    ELSE IF r.Body.Subscription = "" THEN "subscription"
    ELSE IF Unmarshal(r.Body.Data).err THEN "body"
    ELSE "ok"

\* A variant of PushStatus that answers a request failing a check with 400.
PushStatusByCheck(r) == IF PushCheck(r) = "ok" THEN StatusNoContent ELSE 400

\* The status the push handler writes, first thing, for request r.
PushStatus(r) == StatusNoContent

\* ------------------------------------------------------------ request sets

PullMessages == [Data : Payloads]

Methods == {"POST", "GET"}
ContentTypes == {"application/json", "Application/JSON; charset=utf-8", "text/plain", ""}
Subscriptions == {"", "projects/p1/subscriptions/s1"}
\* The request body: the push wrapper object, or bytes that do not decode to it.
Bodies ==
    {[json |-> "malformed", Subscription |-> "", Data |-> [json |-> "nil", d |-> ZeroData]]}
        \cup [json : {"ok"}, Subscription : Subscriptions, Data : Payloads]
\* The envelope of the documented scenario: one CREATE of refs/heads/main.
ScenarioEnvelope ==
    [Name |-> "projects/p1/repos/r1",
     RefUpdateEvent |->
        [Email |-> "a@b.com",
         RefUpdates |->
            <<[RefName |-> "refs/heads/main", UpdateType |-> "CREATE", NewID |-> "abc123"]>>]]
\* Bodies whose payload is the scenario's, malformed or absent.
ProbeBodies ==
    {b \in Bodies : b.Data.json = "ok" => b.Data.d = ScenarioEnvelope}
\* Every body under the headers of a Pub/Sub push, and every combination of
\* headers over the probe bodies.
Requests ==
    [Method : {"POST"}, ContentType : {"application/json"}, Body : Bodies]
        \cup [Method : Methods, ContentType : ContentTypes, Body : ProbeBodies]

NoMsg == [Data |-> [json |-> "nil", d |-> ZeroData]]
NoReq == [Method |-> "", ContentType |-> "", Body |-> [json |-> "malformed", Subscription |-> "", Data |-> [json |-> "nil", d |-> ZeroData]]]

\* ------------------------------------------------------------------ actions

Init ==
    /\ mode \in Modes
    /\ slackURL \in SlackURLs
    /\ pc = "idle"
    /\ msg = NoMsg
    /\ req = NoReq
    /\ d = ZeroData
    /\ remaining = {}
    /\ log = <<>>
    /\ err = "none"
    /\ calls = <<>>
    /\ status = 0
    /\ rejected = ""

\* startPull: the Receive callback is entered with a message m and runs up to
\* the processData call, or to its return when the payload does not decode.
PullReceive ==
    /\ pc = "idle"
    /\ mode # "push"
    /\ \E m \in PullMessages :
        LET u == Unmarshal(m.Data)
        IN  /\ msg' = m
            /\ IF u.err
               THEN /\ pc' = "returned"
                    /\ calls' = PullCalls(TRUE, FALSE)
                    /\ UNCHANGED <<d, remaining>>
               ELSE /\ pc' = "processData"
                    /\ d' = u.d
                    /\ remaining' = DOMAIN u.d.RefUpdateEvent.RefUpdates
                    /\ UNCHANGED calls
    /\ UNCHANGED <<mode, slackURL, req, log, err, status, rejected>>

\* startPush: the handler is entered with a request r, writes the status and
\* runs up to the processData call, or to its return when a check fails.
PushRequest ==
    /\ pc = "idle"
    /\ mode = "push"
    /\ \E r \in Requests :
        /\ req' = r
        /\ status' = PushStatus(r)
        /\ IF PushCheck(r) = "ok"
           THEN /\ pc' = "processData"
                /\ d' = Unmarshal(r.Body.Data).d
                /\ remaining' = DOMAIN d'.RefUpdateEvent.RefUpdates
                /\ UNCHANGED rejected
           ELSE /\ pc' = "returned"
                /\ rejected' = PushCheck(r)
                /\ UNCHANGED <<d, remaining>>
    /\ UNCHANGED <<mode, slackURL, msg, log, err, calls>>

\* What the handler does with processData's result e ("nil" or "err") before it
\* returns: the pull callback nacks and/or acks, the push handler drops it.
HandlerReturns(e) ==
    /\ pc' = "returned"
    /\ err' = e
    /\ calls' = IF mode = "push" THEN calls ELSE PullCalls(FALSE, e = "err")

\* processData: one iteration of the range loop over the RefUpdates map, whose
\* order Go leaves unspecified; an error returns from processData and so
\* through the handler.
ProcessDataIter ==
    /\ pc = "processData"
    /\ \E k \in remaining, o \in Outcomes :
        LET it == processDataIter(slackURL, d, k, o)
        IN  /\ log' = Append(log, it.rec)
            /\ remaining' = remaining \ {k}
            /\ IF it.return
               THEN HandlerReturns("err")
               ELSE UNCHANGED <<pc, err, calls>>
    /\ UNCHANGED <<mode, slackURL, msg, req, d, status, rejected>>

\* processData: the loop is over, `return nil`, and the handler returns.
ProcessDataDone ==
    /\ pc = "processData"
    /\ remaining = {}
    /\ HandlerReturns("nil")
    /\ UNCHANGED <<mode, slackURL, msg, req, d, remaining, log, status, rejected>>

\* The handler has returned; the subscription or the HTTP server hands the next
\* message to a fresh invocation, which shares no state with this one.
NextMessage ==
    /\ pc = "returned"
    /\ pc' = "idle"
    /\ msg' = NoMsg
    /\ req' = NoReq
    /\ d' = ZeroData
    /\ remaining' = {}
    /\ log' = <<>>
    /\ err' = "none"
    /\ calls' = <<>>
    /\ status' = 0
    /\ rejected' = ""
    /\ UNCHANGED <<mode, slackURL>>

Next ==
    \/ PullReceive
    \/ PushRequest
    \/ ProcessDataIter
    \/ ProcessDataDone
    \/ NextMessage

Spec == Init /\ [][Next]_vars

\* --------------------------------------------- what the properties speak of

\* The handler has run to its return.
PullReturned == mode = "pull" /\ pc = "returned"
PushReturned == mode = "push" /\ pc = "returned"

\* The ref update the i-th processUpdateEvent call was made for.
EventAt(i) == d.RefUpdateEvent.RefUpdates[log[i].key]

\* The queue decision for the message: a pubsub.Message acts on the first of its
\* Ack/Nack calls and ignores the later ones.
Decision == IF calls = <<>> THEN "none" ELSE Head(calls)

\* The positions of "/" in s, the number of "/"-separated segments, the n-th "/".
Slashes(s) == {i \in 1..Len(s) : SubSeq(s, i, i) = "/"}
SegmentCount(s) == Cardinality(Slashes(s)) + 1
Slash(s, n) == CHOOSE i \in Slashes(s) : Cardinality({j \in Slashes(s) : j <= i}) = n
\* Segment 1 (0-based), segment 3 (0-based) and all that follows the third "/".
Segment1(s) == SubSeq(s, Slash(s, 1) + 1, Slash(s, 2) - 1)
Segment3(s) ==
    SubSeq(s, Slash(s, 3) + 1, IF SegmentCount(s) > 4 THEN Slash(s, 4) - 1 ELSE Len(s))
AfterThirdSlash(s) == SubSeq(s, Slash(s, 3) + 1, Len(s))

\* The i-th call skipped its ref update: nothing built, nothing sent, no error.
Skipped(i) == log[i].sent = <<>> /\ log[i].posts = <<>> /\ ~log[i].err

\* The number of processUpdateEvent calls made for key k.
CallsFor(k) == Cardinality({i \in 1..Len(log) : log[i].key = k})

\* ------------------------------------------------------------------ claims

\* C1: in the pull callback, on every path, exactly one Ack-or-Nack call is made
\* on the message: never none, never both an Ack and a Nack.
C1_ExactlyOneCall ==
    PullReturned => Len(calls) = 1

\* C2: in the pull adapter a payload that fails to decode is acknowledged and
\* processData is never invoked; a processData error (a ref update's delivery
\* failed) rejects the message; no error acknowledges it.
C2_PullDecision ==
    PullReturned =>
        /\ Unmarshal(msg.Data).err => (Decision = "Ack" /\ err = "none" /\ log = <<>>)
        /\ ~Unmarshal(msg.Data).err => err # "none"
        /\ err = "err" <=> (\E i \in 1..Len(log) : log[i].err)
        /\ err = "err" => Decision = "Nack"
        /\ err = "nil" => (Decision = "Ack" /\ "Nack" \notin {calls[i] : i \in 1..Len(calls)})

\* C2's case: a delivery failed, processData returned the error, Nack came first.
C2_Witness ==
    /\ PullReturned
    /\ err = "err"
    /\ log # <<>> /\ log[Len(log)].posts # <<>>
    /\ Decision = "Nack"

\* C3: processData is fail-fast: after a failed delivery no further ref update is
\* processed and the failure is returned; what was delivered before stays
\* delivered; without a failure every ref update is processed exactly once, the
\* notifiable ones delivered once, and processData returns nil.
C3_FailFast ==
    /\ \A i \in 1..Len(log) : log[i].err => (i = Len(log) /\ pc = "returned" /\ err = "err")
    /\ \A k \in DOMAIN d.RefUpdateEvent.RefUpdates :
        /\ CallsFor(k) <= 1
        /\ k \in remaining <=> CallsFor(k) = 0
    /\ \A i \in 1..Len(log) : Len(log[i].sent) <= 1 /\ Len(log[i].posts) <= Len(log[i].sent)
    /\ err = "err" =>
        /\ log # <<>> /\ log[Len(log)].err
        /\ \A i \in 1..(Len(log) - 1) :
            log[i].sent # <<>> /\ slackURL # "" =>
                (Len(log[i].posts) = 1 /\ log[i].posts[1].result.status = StatusOK)
    /\ err = "nil" =>
        /\ remaining = {}
        /\ \A k \in DOMAIN d.RefUpdateEvent.RefUpdates : CallsFor(k) = 1
        /\ \A i \in 1..Len(log) :
            /\ ~log[i].err
            /\ (EventAt(i).UpdateType \in KnownUpdateTypes /\ SegmentCount(d.Name) >= 4) =>
                Len(log[i].sent) = 1

\* C3's case: the first ref update processed failed to deliver while another was
\* still to be processed, and processData returned the error without touching it.
C3_Witness ==
    /\ pc = "returned"
    /\ err = "err"
    /\ Len(log) = 1 /\ log[1].posts # <<>>
    /\ \E k \in remaining : updateTypeColor(d.RefUpdateEvent.RefUpdates[k].UpdateType) # ""

\* C4: the push handler answers every request with 204 No Content, whatever the
\* request and whatever becomes of it: the status is written before any check
\* and stays as processData runs and returns.
C4_AlwaysNoContent ==
    (mode = "push" /\ pc # "idle") => status = 204

\* C4's case: a request whose delivery failed, answered 204 all the same.
C4_Witness ==
    /\ PushReturned
    /\ err = "err"
    /\ log # <<>> /\ log[Len(log)].posts # <<>>
    /\ status = 204

\* The color the documentation gives for a classification.
DocumentedColor(t) ==
    IF t = "CREATE" THEN "#2e77ff"
    ELSE IF t = "UPDATE_FAST_FORWARD" THEN "#60ff55"
    ELSE IF t = "UPDATE_NON_FAST_FORWARD" THEN "#ff2e2e"
    ELSE "#ff6d2e"

\* C5: a ref update classified CREATE, UPDATE_FAST_FORWARD, UPDATE_NON_FAST_FORWARD
\* or DELETE, under a resource name that splits, gets a notification of the
\* documented color; any other classification gets none: nothing is sent and
\* processUpdateEvent returns nil.
C5_ColorByUpdateType ==
    \A i \in 1..Len(log) :
        LET t == EventAt(i).UpdateType
        IN  /\ (t \in KnownUpdateTypes /\ SegmentCount(d.Name) >= 4) =>
                /\ Len(log[i].sent) = 1
                /\ Len(log[i].sent[1].Attachments) = 1
                /\ log[i].sent[1].Attachments[1].Color = DocumentedColor(t)
            /\ t \notin KnownUpdateTypes => Skipped(i)

\* C5's case: a DELETE notification was built, and an unknown type was skipped.
C5_Witness ==
    /\ pc = "returned"
    /\ Len(log) = 2
    /\ \E i, j \in 1..2 :
        /\ EventAt(i).UpdateType = "DELETE" /\ log[i].sent # <<>>
        /\ EventAt(j).UpdateType = "UNKNOWN" /\ Skipped(j)

\* C6 as claimed: a resource name of other than exactly 4 segments (fewer, and
\* also more) is skipped without error; a notification is built only for exactly
\* 4 segments, from segments 1 and 3.
C6_SkipUnlessExactlyFour ==
    \A i \in 1..Len(log) :
        /\ SegmentCount(d.Name) # 4 => Skipped(i)
        /\ log[i].sent # <<>> =>
            /\ SegmentCount(d.Name) = 4
            /\ log[i].sent[1].Attachments[1].TitleLink =
                "https://source.cloud.google.com/" \o Segment1(d.Name) \o "/"
                    \o Segment3(d.Name) \o "/+/" \o EventAt(i).NewID

\* C6 as amended: a resource name of fewer than 4 segments is skipped without
\* error; a name of 4 or more segments is notified (for a known classification),
\* with project id = segment 1 and repository name = all that follows the third
\* "/" (segment 3 when there are exactly 4).
C6_SkipIfFewerThanFour ==
    \A i \in 1..Len(log) :
        /\ SegmentCount(d.Name) < 4 => Skipped(i)
        /\ (SegmentCount(d.Name) >= 4 /\ EventAt(i).UpdateType \in KnownUpdateTypes) =>
            log[i].sent # <<>>
        /\ log[i].sent # <<>> =>
            /\ SegmentCount(d.Name) >= 4
            /\ log[i].sent[1].Attachments[1].TitleLink =
                "https://source.cloud.google.com/" \o Segment1(d.Name) \o "/"
                    \o AfterThirdSlash(d.Name) \o "/+/" \o EventAt(i).NewID
            /\ SegmentCount(d.Name) = 4 => AfterThirdSlash(d.Name) = Segment3(d.Name)

\* C6's case: a name of 5 segments, whose ref update was notified.
C6_Witness ==
    /\ SegmentCount(d.Name) = 5
    /\ log # <<>> /\ log[1].sent # <<>>
    /\ log[1].sent[1].Attachments[1].TitleLink =
        "https://source.cloud.google.com/p1/r1/extra/+/abc123"

\* C7: with an empty slack_url sendSlackMessage succeeds for every message and
\* makes no network call; so processData never fails and, pulling, every
\* decodable message is acknowledged and never rejected.
C7_EmptyURLNoOp ==
    slackURL = "" =>
        /\ \A i \in 1..Len(log) : ~log[i].err /\ log[i].posts = <<>>
        /\ err # "err"
        /\ (PullReturned /\ ~Unmarshal(msg.Data).err) => calls = <<"Ack">>

\* C7's case: no URL, a message handed to sendSlackMessage, the pull message acked.
C7_Witness ==
    /\ slackURL = ""
    /\ PullReturned
    /\ log # <<>> /\ log[1].sent # <<>>
    /\ calls = <<"Ack">>

\* C8: with a slack_url set, one sendSlackMessage call issues at most one POST
\* and succeeds exactly when a response came back with status 200; another status
\* (204 too), a failed client.Do, a failed encode or request construction fail it.
C8_SuccessIffStatusOK ==
    slackURL # "" =>
        \A i \in 1..Len(log) :
            log[i].sent # <<>> =>
                /\ Len(log[i].posts) <= 1
                /\ ~log[i].err <=>
                    /\ Len(log[i].posts) = 1
                    /\ log[i].posts[1].result.kind = "resp"
                    /\ log[i].posts[1].result.status = 200

\* C8's case: the webhook answered 204 and the call was reported failed.
C8_Witness ==
    /\ log # <<>>
    /\ LET l == log[Len(log)]
       IN  /\ Len(l.posts) = 1
           /\ l.posts[1].result = [kind |-> "resp", status |-> 204]
           /\ l.err

\* C9: the message handed to delivery has one attachment: fallback name:ref, the
\* mapped color, title "Cloud Repo", the commit link built without escaping, the
\* author's email as author name, and the five fields Repository, Branch, Email,
\* Update Type (the raw classification), Commit SHA in this order.
C9_MessageLayout ==
    \A i \in 1..Len(log) :
        log[i].sent # <<>> =>
            LET ev == EventAt(i)
                m == log[i].sent[1]
                a == m.Attachments[1]
            IN  /\ Len(log[i].sent) = 1
                /\ DOMAIN m = {"Attachments"}
                /\ Len(m.Attachments) = 1
                /\ a.Fallback = d.Name \o ":" \o ev.RefName
                /\ a.Color = DocumentedColor(ev.UpdateType)
                /\ a.Title = "Cloud Repo"
                /\ a.TitleLink =
                    "https://source.cloud.google.com/" \o Segment1(d.Name) \o "/"
                        \o AfterThirdSlash(d.Name) \o "/+/" \o ev.NewID
                /\ a.AuthorName = d.RefUpdateEvent.Email
                /\ a.Fields =
                    << [Title |-> "Repository", Value |-> d.Name],
                       [Title |-> "Branch", Value |-> ev.RefName],
                       [Title |-> "Email", Value |-> d.RefUpdateEvent.Email],
                       [Title |-> "Update Type", Value |-> ev.UpdateType],
                       [Title |-> "Commit SHA", Value |-> ev.NewID] >>
                /\ (d.Name = "projects/p1/repos/r1" /\ ev.UpdateType = "CREATE"
                        /\ ev.NewID = "abc123" /\ ev.RefName = "refs/heads/main") =>
                    /\ a.TitleLink = "https://source.cloud.google.com/p1/r1/+/abc123"
                    /\ a.Color = "#2e77ff"
                    /\ a.Fields[2] = [Title |-> "Branch", Value |-> "refs/heads/main"]
                    /\ a.Fallback = "projects/p1/repos/r1:refs/heads/main"
                /\ \A j \in 1..Len(log[i].posts) : log[i].posts[j].body = m

\* C9's case: the documented scenario, its message handed to delivery and posted.
C9_Witness ==
    /\ d.Name = "projects/p1/repos/r1"
    /\ Len(log) = 1
    /\ EventAt(1).UpdateType = "CREATE"
    /\ log[1].sent # <<>>
    /\ log[1].posts # <<>>
    /\ log[1].sent[1].Attachments[1].TitleLink = "https://source.cloud.google.com/p1/r1/+/abc123"

\* The media types of ContentTypes that read as application/json.
JSONContentTypes == {"application/json", "Application/JSON; charset=utf-8"}

\* C10: the push handler enters processData only for a request that passed, in
\* this order, the method, media type, wrapper, subscription and payload checks;
\* a request failing one is discarded without a delivery attempt, and a delivery
\* failure goes nowhere: no Ack or Nack, the answer stays 204.
C10_PushChecks ==
    mode = "push" =>
        LET methodOK == req.Method = "POST"
            typeOK == req.ContentType \in JSONContentTypes
            wrapperOK == req.Body.json = "ok"
            subscriptionOK == req.Body.Subscription # ""
            payloadOK == req.Body.Data.json = "ok"
            allOK == methodOK /\ typeOK /\ wrapperOK /\ subscriptionOK /\ payloadOK
        IN  /\ (pc = "processData" \/ log # <<>> \/ err # "none") => allOK
            /\ (pc = "returned" /\ ~allOK) => (log = <<>> /\ err = "none" /\ rejected # "")
            /\ (pc = "returned" /\ allOK) => (rejected = "" /\ err # "none")
            /\ pc = "returned" =>
                /\ rejected = "method" <=> ~methodOK
                /\ rejected = "content-type" <=> (methodOK /\ ~typeOK)
                /\ rejected = "wrapper" <=> (methodOK /\ typeOK /\ ~wrapperOK)
                /\ rejected = "subscription" <=>
                    (methodOK /\ typeOK /\ wrapperOK /\ ~subscriptionOK)
                /\ rejected = "body" <=>
                    (methodOK /\ typeOK /\ wrapperOK /\ subscriptionOK /\ ~payloadOK)
            /\ calls = <<>>
            /\ err = "err" => status = 204

\* C10's case: all is well but for the subscription, and the request was discarded.
C10_Witness ==
    /\ PushReturned
    /\ req.Method = "POST" /\ req.ContentType \in JSONContentTypes
    /\ req.Body.json = "ok" /\ req.Body.Data.json = "ok"
    /\ req.Body.Data.d.RefUpdateEvent.RefUpdates # <<>>
    /\ req.Body.Subscription = ""
    /\ rejected = "subscription"
    /\ log = <<>>
====
